---- MODULE Spec2Model ----
(***************************************************************************)
(* A model of dependency-mcp's PackageVersionChecker (the dispatcher and   *)
(* its batch fan-out), the BaseRegistryHandler request policy and the      *)
(* seven registry handlers of src/src/packageChecker.ts.                   *)
(*                                                                         *)
(* JavaScript values are tagged records; strings are sequences of          *)
(* one-character strings so that length, trim and split are computed.      *)
(* Time is Date.now() in milliseconds.                                     *)
(***************************************************************************)
EXTENDS Integers, Sequences, FiniteSets, TLC

(***************************************************************************)
(* Bounds of the model.                                                    *)
(***************************************************************************)
\* Batches of 0..MaxItems items are enumerated item by item.
MaxItems == 2
\* Date.now() when the first call is made.
StartClock == 1000
\* Every request is answered (or fails) within this time of being issued,
\* which is before the next timer is due: the clock is read when a call is
\* made and when a timer fires.
MaxLatency == 60

(***************************************************************************)
(* Program constants.                                                      *)
(***************************************************************************)
MaxBatchSize == 100
MaxPackageNameLength == 500
MaxVersionLength == 100
rateLimitDelay == 100
mavenMaxRetries == 3
backoffUnit == 1000

(***************************************************************************)
(* JavaScript values.                                                      *)
(***************************************************************************)
Str(s) == [t |-> "string", s |-> s]
Null == [t |-> "null"]
Undefined == [t |-> "undefined"]
Num(n) == [t |-> "number", n |-> n]
Bool(b) == [t |-> "boolean", b |-> b]
Obj(p, v) == [t |-> "object", package_name |-> p, version |-> v]

Rep(c, n) == [i \in 1..n |-> c]

IsString(v) == v.t = "string"

\* !v of JavaScript
Falsy(v) ==
    \/ v.t \in {"null", "undefined"}
    \/ v.t = "string" /\ v.s = <<>>
    \/ v.t = "number" /\ v.n = 0
    \/ v.t = "boolean" /\ ~v.b

\* String.prototype.trim
RECURSIVE TrimStart(_)
TrimStart(s) == IF s # <<>> /\ Head(s) = " " THEN TrimStart(Tail(s)) ELSE s

RECURSIVE TrimEnd(_)
TrimEnd(s) ==
    IF s # <<>> /\ s[Len(s)] = " " THEN TrimEnd(SubSeq(s, 1, Len(s) - 1)) ELSE s

Trim(s) == TrimEnd(TrimStart(s))

\* const [groupId, artifactId] = packageName.split(':')
SetMin(S) == CHOOSE x \in S : \A y \in S : x <= y

SplitColon(s) ==
    LET colons == {i \in 1..Len(s) : s[i] = ":"}
    IN  IF colons = {}
        THEN <<Str(s), Undefined>>
        ELSE LET c1 == SetMin(colons)
                 rest == {i \in colons : i > c1}
                 c2 == IF rest = {} THEN Len(s) + 1 ELSE SetMin(rest)
             IN  <<Str(SubSeq(s, 1, c1 - 1)), Str(SubSeq(s, c1 + 1, c2 - 1))>>

(***************************************************************************)
(* Errors: an Error's message, with the interpolated parts kept apart.     *)
(***************************************************************************)
Msg(text) == [text |-> text, arg |-> "", status |-> 0]
MsgArg(text, arg) == [text |-> text, arg |-> arg, status |-> 0]
MsgStatus(text, status, statusText) == [text |-> text, arg |-> statusText, status |-> status]

Return(v) == [kind |-> "return", value |-> v]
Throw(m) == [kind |-> "throw", error |-> m]

(***************************************************************************)
(* PackageVersionChecker._validatePackageName / _validateVersion           *)
(***************************************************************************)
\* a variant of NameTooLong: the limit off by one
NameTooLongOffByOne(s) == Len(s) > MaxPackageNameLength + 1

NameTooLong(s) == Len(s) > MaxPackageNameLength

validatePackageName(packageName) ==
    IF Falsy(packageName) \/ ~IsString(packageName)
    THEN Throw(Msg("Package name must be a non-empty string"))
    ELSE IF NameTooLong(packageName.s)
    THEN Throw(Msg("Package name too long (max 500 characters)"))
    ELSE Return(Str(Trim(packageName.s)))

VersionTooLong(s) == Len(s) > MaxVersionLength

validateVersion(version) ==
    IF Falsy(version) \/ ~IsString(version)
    THEN Throw(Msg("Version must be a non-empty string"))
    ELSE IF VersionTooLong(version.s)
    THEN Throw(Msg("Version string too long (max 100 characters)"))
    ELSE Return(Str(Trim(version.s)))

(***************************************************************************)
(* PackageVersionChecker.registryHandlers: an object literal with one      *)
(* handler per registry.  A property read on it also finds the members     *)
(* every object inherits from Object.prototype.                            *)
(***************************************************************************)
Registries == {"npm", "pypi", "maven", "nuget", "rubygems", "crates", "go"}

InheritedKeys == {"constructor", "toString", "valueOf", "hasOwnProperty"}

registryHandlers(registry) ==
    IF registry \in Registries THEN [kind |-> "handler", registry |-> registry]
    ELSE IF registry \in InheritedKeys THEN [kind |-> "inherited", registry |-> registry]
    ELSE [kind |-> "undefined", registry |-> registry]

\* if (!handler) throw new Error(`Unsupported registry: ${registry}`)
unsupported(registry) == registryHandlers(registry).kind = "undefined"

UnsupportedRegistry(registry) == Throw(MsgArg("Unsupported registry: ", registry))

(***************************************************************************)
(* What a registry answers to one request: an HTTP response (status,       *)
(* statusText, body) or, with status 0, a transport failure with axios'    *)
(* error code.                                                             *)
(***************************************************************************)
Arr(items) == [t |-> "array", items |-> items]
Doc(main, latest, versions) ==
    [t |-> "object", main |-> main, latest |-> latest, versions |-> versions]

Http(status, statusText, body) ==
    [status |-> status, statusText |-> statusText, code |-> "", body |-> body]
Failure(code) == [status |-> 0, statusText |-> "", code |-> code, body |-> Null]

\* axios' own message of a failed request, used when statusText is empty
AxiosMessage == "Request failed"

(***************************************************************************)
(* BaseRegistryHandler.makeRequest, lines 168-195: the outcome of the      *)
(* request given the registry's answer.                                    *)
(***************************************************************************)
\* a variant of IsServerError: the comparison made strict
IsServerErrorStrict(status) == status > 500

IsServerError(status) == status >= 500

responseMapping(resp) ==
    IF resp.status >= 200 /\ resp.status < 300
    THEN Return(resp.body)
    ELSE IF resp.status = 404
    THEN Return(Null)
    ELSE IF resp.status = 429
    THEN Throw(Msg("Rate limit exceeded. Please try again later."))
    ELSE IF resp.status # 0 /\ IsServerError(resp.status)
    THEN Throw(MsgStatus("Server error: ", resp.status, resp.statusText))
    ELSE IF resp.code \in {"ENOTFOUND", "ECONNREFUSED"}
    THEN Throw(Msg("Network error: Unable to reach registry"))
    ELSE IF resp.code = "ECONNABORTED"
    THEN Throw(Msg("Request timeout"))
    ELSE Throw(MsgStatus("HTTP ", resp.status,
                         IF resp.statusText # "" THEN resp.statusText ELSE AxiosMessage))

(***************************************************************************)
(* BaseRegistryHandler._createErrorResponse / _createSuccessResponse.      *)
(* An object spread {...a, ...b} is b @@ a: the later keys win.            *)
(***************************************************************************)
NoFields == [x \in {} |-> Null]

createErrorResponse(packageName, registry, message, additionalData, now) ==
    additionalData @@
    [package |-> packageName, registry |-> registry, found |-> FALSE,
     error |-> message, timestamp |-> now]

createSuccessResponse(packageName, registry, data, now) ==
    data @@
    [package |-> packageName, registry |-> registry, found |-> TRUE,
     timestamp |-> now]

PackageNotFound == Msg("Package not found")
InvalidFormat == Msg("Invalid format. Use groupId:artifactId")

(***************************************************************************)
(* The registry handlers.  A registry's JSON document is kept in a         *)
(* registry-neutral form: main says whether its principal member is there  *)
(* (npm dist-tags, PyPI info, crates crate, Maven response), latest is the *)
(* latest-version member and versions the version collection (the keys of  *)
(* npm versions / PyPI releases, the NuGet versions array, the number/num  *)
(* members of the RubyGems and crates lists, the docs of Maven's response,  *)
(* each with its v and latestVersion members).                             *)
(***************************************************************************)
\* a doc of Maven's response.docs
MavenDoc(v, latestVersion) ==
    [t |-> "object", v |-> v, latestVersion |-> latestVersion]

\* a || b of JavaScript
Or(a, b) == IF Falsy(a) THEN b ELSE a

Proceed == [kind |-> "proceed"]
Second == [kind |-> "second"]
Direct == [kind |-> "direct"]

TypeError(what) == Throw(MsgArg("TypeError: ", what))

IsArr(v) == v.t = "array"
NonEmptyArr(v) == IsArr(v) /\ v.items # <<>>
Includes(arr, v) == \E i \in 1..Len(arr.items) : arr.items[i] = v

\* the text members of a document (description, homepage, ...): absent
\* from a document that lacks its principal member
Member(data, text) == IF data.main THEN Str(<<text>>) ELSE Undefined

\* a variant of VersionField: the extra fields say found as well
VersionFieldOverriding(op, version) ==
    IF op = "checkVersionExists" THEN [version |-> version, found |-> TRUE]
    ELSE NoFields

\* the extra field a handler's checkVersionExists passes to the error response
VersionField(op, version) ==
    IF op = "checkVersionExists" THEN [version |-> version] ELSE NoFields

NotFound(registry, op, packageName, version, now) ==
    Return(createErrorResponse(packageName, registry, PackageNotFound,
                               VersionField(op, version), now))

\* a variant of malformed: only the groupId is looked at
malformedGroupOnly(parts) == Falsy(parts[1])

\* if (!groupId || !artifactId)
malformed(parts) == Falsy(parts[1]) \/ Falsy(parts[2])

\* the part of a handler method before its first request
preCheck(registry, op, packageName, version, now) ==
    IF registry = "maven"
    THEN IF ~IsString(packageName)
         THEN TypeError("packageName.split is not a function")
         ELSE LET parts == SplitColon(packageName.s)
              IN  IF malformed(parts)
                  THEN Return(createErrorResponse(packageName, "maven", InvalidFormat,
                                                  VersionField(op, version), now))
                  ELSE Proceed
    ELSE IF registry = "nuget"
    THEN IF ~IsString(packageName)
         THEN TypeError("packageName.toLowerCase is not a function")
         ELSE Proceed
    ELSE Proceed

\* the test a handler makes on the first document before using it
Missing(registry, op, data) ==
    \/ Falsy(data)
    \/ registry = "maven" /\ (~data.main \/ ~NonEmptyArr(data.versions))
    \/ registry = "nuget" /\ op # "checkVersionExists" /\ ~NonEmptyArr(data.versions)
    \/ registry = "crates" /\ op # "checkVersionExists" /\ ~data.main

latestVersion(registry, data) ==
    IF registry = "maven"
    THEN Or(data.versions.items[1].latestVersion, data.versions.items[1].v)
    ELSE IF registry = "nuget"
    THEN data.versions.items[Len(data.versions.items)]
    ELSE data.latest

description(registry, data) ==
    IF registry \in {"maven", "nuget", "go"} THEN Str(<<"d">>) ELSE Member(data, "d")

\* exists, as each handler's checkVersionExists computes it
existsValue(registry, version, data) ==
    IF registry = "go" THEN Bool(data # Null)
    ELSE IF registry = "maven"
    THEN IF Falsy(data) THEN data
         ELSE Bool(data.main /\ NonEmptyArr(data.versions))
    ELSE IF registry = "rubygems"
    THEN Bool(IsArr(data.versions) /\ Includes(data.versions, version))
    ELSE IF Falsy(data.versions) THEN data.versions
         ELSE Bool(Includes(data.versions, version))

\* a variant of versionList: the document is not looked at before its versions
\* are taken
versionListUnchecked(registry, data) ==
    IF Falsy(data) THEN Undefined
    ELSE IF ~IsArr(data.versions) THEN Arr(<<>>)
    ELSE data.versions

\* versions, as each handler's getPackageInfo computes it from the document
\* that lists them
versionList(registry, data) ==
    IF Falsy(data) \/ ~IsArr(data.versions) THEN Arr(<<>>)
    ELSE IF registry = "maven"
    THEN Arr(SelectSeq([i \in 1..Len(data.versions.items) |->
                           Or(data.versions.items[i].v,
                              data.versions.items[i].latestVersion)],
                       LAMBDA v : ~Falsy(v)))
    ELSE data.versions

infoFields(registry, data, versions) ==
    [latest_version |-> latestVersion(registry, data),
     description |-> description(registry, data),
     versions |-> versions]
    @@ (IF registry \in {"npm", "pypi", "rubygems", "crates"}
        THEN [homepage |-> Member(data, "h")] ELSE NoFields)
    @@ (IF registry \in {"npm", "crates"}
        THEN [repository |-> Member(data, "r")] ELSE NoFields)
    @@ (IF registry = "pypi" THEN [author |-> Member(data, "a")] ELSE NoFields)

\* the handler method from the answer to its first request on
afterFirst(registry, op, packageName, version, data, now) ==
    IF op = "checkVersionExists"
    THEN IF registry \notin {"maven", "go"} /\ Falsy(data)
         THEN NotFound(registry, op, packageName, version, now)
         ELSE Return(createSuccessResponse(packageName, registry,
                        [version |-> version,
                         exists |-> existsValue(registry, version, data)], now))
    ELSE IF Missing(registry, op, data)
    THEN NotFound(registry, op, packageName, version, now)
    ELSE IF op = "getLatestVersion"
    THEN Return(createSuccessResponse(packageName, registry,
                    [latest_version |-> latestVersion(registry, data),
                     description |-> description(registry, data)], now))
    ELSE IF registry \in {"rubygems", "crates"} THEN Second
    ELSE IF registry = "go" THEN Direct
    ELSE Return(createSuccessResponse(packageName, registry,
                    infoFields(registry, data, versionList(registry, data)), now))

\* getPackageInfo of RubyGems and crates.io from the answer to the versions request on
afterSecond(registry, packageName, data, versionsData, now) ==
    Return(createSuccessResponse(packageName, registry,
               infoFields(registry, data, versionList(registry, versionsData)), now))

\* versions, as GoHandler.getPackageInfo reads them from the answer to
\* axios.get(@v/list), lines 599-607: the empty list unless the answer is a
\* 200 with text
listedVersions(resp) ==
    IF resp.status = 200 /\ ~Falsy(resp.body) /\ IsString(resp.body)
    THEN IF Trim(resp.body.s) = <<>> THEN Arr(<<>>)
         ELSE Arr(<<Str(Trim(resp.body.s))>>)
    ELSE Arr(<<>>)

\* a variant of afterDirect: a failure of the list request is thrown
afterDirectPropagating(packageName, latestData, resp, now) ==
    IF resp.status \in 200..299
    THEN Return(createSuccessResponse(packageName, "go",
                    infoFields("go", latestData, listedVersions(resp)), now))
    ELSE responseMapping([resp EXCEPT !.status = IF @ = 404 THEN 400 ELSE @])

\* GoHandler.getPackageInfo from the answer (or failure) of axios.get(@v/list) on
afterDirect(packageName, latestData, resp, now) ==
    Return(createSuccessResponse(packageName, "go",
               infoFields("go", latestData, listedVersions(resp)), now))

(***************************************************************************)
(* State.                                                                  *)
(***************************************************************************)
VARIABLES
    clock,            \* Date.now()
    lastRequestTime,  \* BaseRegistryHandler.lastRequestTime of each handler
    call,             \* the dispatcher call being made, and how it ended
    tasks,            \* the handler invocations of the call, one per item
    requests,         \* every outbound request issued so far
    probe             \* an answer handed to the response mapping, and its outcome

vars == <<clock, lastRequestTime, call, tasks, requests, probe>>

SingleOps == {"getLatestVersion", "checkVersionExists", "getPackageInfo"}
BatchOps == {"getLatestVersions", "checkVersionsExist", "getPackagesInfo"}

\* the handler method a dispatcher operation invokes
handlerOp(op) ==
    IF op \in {"getLatestVersion", "getLatestVersions"} THEN "getLatestVersion"
    ELSE IF op \in {"checkVersionExists", "checkVersionsExist"} THEN "checkVersionExists"
    ELSE "getPackageInfo"

Pending == [kind |-> "pending"]
NoCall == [op |-> "none", registry |-> "", args |-> <<>>, outcome |-> [kind |-> "none"]]

\* answer is the status of the registry's answer to the invocation's first
\* request and listAnswer that of the answer to its request for the list of
\* versions (the second request of RubyGems, crates.io and Go), failed is
\* the error of the request that failed last and failedAt the time it
\* failed, ended is what the handler method itself returned or threw, out is
\* what the invocation's promise settled with and rank its place in the
\* order of completion
NewTask(item, packageName, version) ==
    [item |-> item, packageName |-> packageName, version |-> version,
     pc |-> "new", phase |-> 0, attempt |-> 0, wakeAt |-> 0, issuedAt |-> 0,
     requests |-> 0, answer |-> 0, listAnswer |-> 0, failed |-> Msg(""),
     failedAt |-> 0, data |-> Null, lastError |-> Msg(""),
     ended |-> Pending, out |-> Pending, rank |-> 0]

Settled == call.outcome.kind # "pending"
Quiet == \A i \in DOMAIN tasks : tasks[i].pc = "done"
\* the synchronous part of a call has run: every invocation has been started
Started == \A i \in DOMAIN tasks : tasks[i].pc # "new"

(***************************************************************************)
(* Inputs.                                                                 *)
(***************************************************************************)
RegistryTags == Registries \cup {"invalid-registry", "constructor"}

LongName == Rep("a", MaxPackageNameLength)
LongVersion == Rep("1", MaxVersionLength)

PackageNames ==
    {Str(<<>>), Str(<<" ">>), Str(<<"a">>), Str(<<" ", "g", ":", "a", " ">>),
     Str(<<"g", ":">>), Str(<<":", "a">>),
     Str(LongName), Str(LongName \o <<"a">>), Null, Num(42)}

Versions ==
    {Str(<<>>), Str(<<" ">>), Str(<<" ", "1">>), Str(LongVersion),
     Str(LongVersion \o <<"1">>), Null}

NameItems == {Str(<<"g", ":", "a">>), Null, Num(42)}

VersionItems ==
    {Obj(Str(<<"g", ":", "a">>), Str(<<"1">>)), Obj(Str(<<"a">>), Str(<<>>)), Null}

SeqsUpTo(S, n) == UNION {[1..k -> S] : k \in 0..n}

\* the packages argument of a batch call: an array, or something else
Batches(S) ==
    {Arr(items) : items \in SeqsUpTo(S, MaxItems)}
    \cup {Arr(Rep(Str(<<"a">>), MaxBatchSize + 1)), Null}

FullDoc == Doc(TRUE, Str(<<"1">>), Arr(<<Str(<<"1">>)>>))
PartialDoc == Doc(FALSE, Undefined, Undefined)

Responses ==
    {Http(200, "OK", FullDoc), Http(200, "OK", PartialDoc),
     Http(404, "Not Found", Null), Http(500, "Internal Server Error", Null),
     Failure("ECONNABORTED")}

\* Maven's answers: a response whose docs name a version twice (once as v,
\* once as latestVersion) and hold a doc that names none
MavenFound ==
    Doc(TRUE, Undefined,
        Arr(<<MavenDoc(Undefined, Str(<<"1">>)), MavenDoc(Str(<<"1">>), Undefined),
              MavenDoc(Undefined, Undefined)>>))

MavenResponses ==
    {Http(200, "OK", MavenFound), Http(200, "OK", PartialDoc),
     Http(404, "Not Found", Null), Http(500, "Internal Server Error", Null),
     Failure("ECONNABORTED")}

Answers(registry) == IF registry = "maven" THEN MavenResponses ELSE Responses

\* answers to GoHandler's axios.get of @v/list, a plain-text document
ListResponses ==
    {Http(200, "OK", Str(<<"v", "1">>)), Http(200, "OK", Str(<<>>)),
     Http(404, "Not Found", Null), Failure("ECONNABORTED")}

(***************************************************************************)
(* The dispatcher: PackageVersionChecker's six operations.  The call       *)
(* action is the operation up to its first suspension: validation, the     *)
(* handler lookup and, for a batch, _processBatch's precondition; the      *)
(* handler invocations it creates are started by StartTask.                *)
(***************************************************************************)
Init ==
    /\ clock = StartClock
    /\ lastRequestTime = [r \in Registries |-> 0]
    /\ call = NoCall
    /\ tasks = <<>>
    /\ requests = {}
    /\ probe = [resp |-> Failure(""), outcome |-> [kind |-> "none"], first |-> NoCall]

\* one dispatcher call is made in a behaviour, on freshly constructed handlers
CanCall == call = NoCall

Begin(op, registry, args, outcome, newTasks) ==
    /\ CanCall
    /\ call' = [op |-> op, registry |-> registry, args |-> args, outcome |-> outcome]
    /\ tasks' = newTasks
    /\ UNCHANGED <<clock, lastRequestTime, requests, probe>>

\* a variant of getLatestVersion: the handler is looked up before the package
\* name is validated
getLatestVersionResolvingFirst(packageName, registry) ==
    LET name == validatePackageName(packageName)
        args == <<packageName>>
    IN  IF unsupported(registry)
        THEN Begin("getLatestVersion", registry, args, UnsupportedRegistry(registry), <<>>)
        ELSE IF name.kind = "throw"
        THEN Begin("getLatestVersion", registry, args, name, <<>>)
        ELSE Begin("getLatestVersion", registry, args, Pending,
                   <<NewTask(name.value, name.value, Undefined)>>)

getLatestVersion(packageName, registry) ==
    LET name == validatePackageName(packageName)
        args == <<packageName>>
    IN  IF name.kind = "throw"
        THEN Begin("getLatestVersion", registry, args, name, <<>>)
        ELSE IF unsupported(registry)
        THEN Begin("getLatestVersion", registry, args, UnsupportedRegistry(registry), <<>>)
        ELSE Begin("getLatestVersion", registry, args, Pending,
                   <<NewTask(name.value, name.value, Undefined)>>)

checkVersionExists(packageName, version, registry) ==
    LET name == validatePackageName(packageName)
        ver == validateVersion(version)
        args == <<packageName, version>>
    IN  IF name.kind = "throw"
        THEN Begin("checkVersionExists", registry, args, name, <<>>)
        ELSE IF ver.kind = "throw"
        THEN Begin("checkVersionExists", registry, args, ver, <<>>)
        ELSE IF unsupported(registry)
        THEN Begin("checkVersionExists", registry, args, UnsupportedRegistry(registry), <<>>)
        ELSE Begin("checkVersionExists", registry, args, Pending,
                   <<NewTask(name.value, name.value, ver.value)>>)

getPackageInfo(packageName, registry) ==
    LET name == validatePackageName(packageName)
        args == <<packageName>>
    IN  IF name.kind = "throw"
        THEN Begin("getPackageInfo", registry, args, name, <<>>)
        ELSE IF unsupported(registry)
        THEN Begin("getPackageInfo", registry, args, UnsupportedRegistry(registry), <<>>)
        ELSE Begin("getPackageInfo", registry, args, Pending,
                   <<NewTask(name.value, name.value, Undefined)>>)

\* a variant of BatchTooLarge: the limit off by one
BatchTooLargeOffByOne(n) == n > MaxBatchSize + 1

\* _processBatch, lines 85-91
BatchTooLarge(n) == n > MaxBatchSize

batchPrecondition(packages) ==
    IF ~IsArr(packages) \/ packages.items = <<>>
    THEN Throw(Msg("Packages must be a non-empty array"))
    ELSE IF BatchTooLarge(Len(packages.items))
    THEN Throw(Msg("Maximum 100 packages allowed per request"))
    ELSE Proceed

\* the arguments the batch operation's processor hands to the handler
processorArgs(op, item) ==
    IF op = "checkVersionsExist"
    THEN IF item.t = "object" THEN <<item.package_name, item.version>>
         ELSE <<Undefined, Undefined>>
    ELSE <<item, Undefined>>

\* packages.map(...): one invocation per item, in input order
fanOut(op, items) ==
    [i \in 1..Len(items) |->
        NewTask(items[i], processorArgs(op, items[i])[1], processorArgs(op, items[i])[2])]

batchCall(op, packages, registry) ==
    IF unsupported(registry)
    THEN Begin(op, registry, <<packages>>, UnsupportedRegistry(registry), <<>>)
    ELSE IF batchPrecondition(packages).kind = "throw"
    THEN Begin(op, registry, <<packages>>, batchPrecondition(packages), <<>>)
    ELSE Begin(op, registry, <<packages>>, Pending, fanOut(op, packages.items))

getLatestVersions(packages, registry) == batchCall("getLatestVersions", packages, registry)

checkVersionsExist(packages, registry) == batchCall("checkVersionsExist", packages, registry)

getPackagesInfo(packages, registry) == batchCall("getPackagesInfo", packages, registry)

(***************************************************************************)
(* One handler invocation.  In a batch it runs inside _processBatch's      *)
(* try/catch (lines 94-107) and what it ends with is the batch's entry for *)
(* the item; in a single lookup what it ends with is the call's outcome.   *)
(***************************************************************************)
IsBatch == call.op \in BatchOps

\* typeof packageData === 'string' ? packageData : packageData.package_name
packageNameOf(item) ==
    IF item.t = "string" THEN item
    ELSE IF item.t = "object" THEN item.package_name
    ELSE Undefined

\* the catch block of _processBatch, lines 97-105
batchEntry(item, registry, outcome, now) ==
    IF outcome.kind = "return" THEN outcome
    ELSE IF item.t \in {"null", "undefined"}
    THEN TypeError("Cannot read properties of null (reading 'package_name')")
    ELSE Return([package |-> packageNameOf(item), registry |-> registry,
                 found |-> FALSE, error |-> outcome.error, timestamp |-> now])

\* Promise.all rejects with the first rejection
Finish(i, t, outcome) ==
    LET out == IF IsBatch THEN batchEntry(t.item, call.registry, outcome, clock)
               ELSE outcome
        done == {j \in DOMAIN tasks : tasks[j].pc = "done"}
    IN  /\ tasks' = [tasks EXCEPT ![i] =
                [t EXCEPT !.pc = "done", !.ended = outcome, !.out = out,
                          !.rank = Cardinality(done) + 1]]
        /\ call' = IF IsBatch /\ out.kind = "throw" /\ ~Settled
                   THEN [call EXCEPT !.outcome = out]
                   ELSE call
        /\ UNCHANGED <<lastRequestTime, requests>>

\* a variant of Issue: one lastRequestTime for all the handlers
IssueGlobal(i, t) ==
    /\ tasks' = [tasks EXCEPT ![i] = [t EXCEPT !.pc = "inflight", !.issuedAt = clock,
                                              !.requests = @ + 1]]
    /\ lastRequestTime' = [r \in Registries |-> clock]
    /\ requests' = requests \cup {[registry |-> call.registry, at |-> clock, task |-> i,
                                   n |-> t.requests + 1, via |-> "makeRequest"]}
    /\ UNCHANGED call

\* makeRequest, line 166 on: the request is issued
Issue(i, t) ==
    /\ tasks' = [tasks EXCEPT ![i] = [t EXCEPT !.pc = "inflight", !.issuedAt = clock,
                                              !.requests = @ + 1]]
    /\ lastRequestTime' = [lastRequestTime EXCEPT ![call.registry] = clock]
    /\ requests' = requests \cup {[registry |-> call.registry, at |-> clock, task |-> i,
                                   n |-> t.requests + 1, via |-> "makeRequest"]}
    /\ UNCHANGED call

\* makeRequest, lines 161-165: the rate limiter
mustWait(now, last) == now - last < rateLimitDelay

\* a variant of Enter: a request made too early is refused
EnterRejecting(i, t) ==
    IF mustWait(clock, lastRequestTime[call.registry])
    THEN Finish(i, t, Throw(Msg("Rate limit exceeded. Please try again later.")))
    ELSE Issue(i, t)

Enter(i, t) ==
    IF mustWait(clock, lastRequestTime[call.registry])
    THEN /\ tasks' = [tasks EXCEPT ![i] =
                [t EXCEPT !.pc = "sleep",
                          !.wakeAt = clock + (rateLimitDelay
                                        - (clock - lastRequestTime[call.registry]))]]
         /\ UNCHANGED <<lastRequestTime, requests, call>>
    ELSE Issue(i, t)

\* the invocations of a call are started in input order, before anything
\* else of the call runs
StartTask(i) ==
    /\ i \in DOMAIN tasks
    /\ tasks[i].pc = "new"
    /\ \A j \in 1..(i - 1) : tasks[j].pc # "new"
    /\ LET t == tasks[i]
           op == handlerOp(call.op)
           pre == IF call.op = "checkVersionsExist" /\ t.item.t \in {"null", "undefined"}
                  THEN TypeError("Cannot destructure property 'package_name'")
                  ELSE IF registryHandlers(call.registry).kind = "inherited"
                  THEN TypeError("handler method is not a function")
                  ELSE preCheck(call.registry, op, t.packageName, t.version, clock)
       IN  IF pre.kind = "proceed"
           THEN Enter(i, [t EXCEPT !.phase = 1, !.attempt = 1])
           ELSE Finish(i, t, pre)
    /\ UNCHANGED <<clock, probe>>

\* the rate limiter's timer fires
Wake(i) ==
    /\ Started
    /\ i \in DOMAIN tasks
    /\ tasks[i].pc = "sleep"
    /\ clock >= tasks[i].wakeAt
    /\ Issue(i, tasks[i])
    /\ UNCHANGED <<clock, probe>>

\* a variant of retries: every handler retries
retriesEverywhere(registry) == TRUE

\* MavenHandler.makeRequestWithRetry, lines 334-345
retries(registry) == registry = "maven"

\* a variant of lastAttempt: one attempt more is made
lastAttemptLate(attempt) == attempt >= mavenMaxRetries + 1

lastAttempt(attempt) == attempt >= mavenMaxRetries

\* a variant of backoff: the same wait after every attempt
backoffConstant(attempt) == backoffUnit

backoff(attempt) == backoffUnit * attempt

\* a variant of recordError: the first error is kept
keepFirstError(lastError, error) == IF lastError = Msg("") THEN error ELSE lastError

\* lastError = error instanceof Error ? error : new Error('Unknown error')
recordError(lastError, error) == error

\* the registry answers a request made through makeRequest
Respond(i, resp) ==
    /\ Started
    /\ i \in DOMAIN tasks
    /\ tasks[i].pc = "inflight"
    /\ LET made == responseMapping(resp)
           seen == IF tasks[i].phase = 1
                   THEN [tasks[i] EXCEPT !.answer = resp.status]
                   ELSE [tasks[i] EXCEPT !.listAnswer = resp.status]
           t == IF made.kind = "throw"
                THEN [seen EXCEPT !.failed = made.error, !.failedAt = clock]
                ELSE seen
           reg == call.registry
           op == handlerOp(call.op)
       IN  IF made.kind = "throw"
           THEN IF retries(reg)
                THEN LET caught == [t EXCEPT !.lastError =
                                       recordError(t.lastError, made.error)]
                     IN  IF ~lastAttempt(t.attempt)
                         THEN /\ tasks' = [tasks EXCEPT ![i] =
                                     [caught EXCEPT !.pc = "backoff",
                                                    !.wakeAt = clock + backoff(t.attempt)]]
                              /\ UNCHANGED <<lastRequestTime, requests, call>>
                         ELSE Finish(i, caught, Throw(caught.lastError))
                ELSE Finish(i, t, made)
           ELSE IF t.phase = 1
           THEN LET next == afterFirst(reg, op, t.packageName, t.version, made.value, clock)
                IN  IF next.kind = "second"
                    THEN Enter(i, [t EXCEPT !.phase = 2, !.data = made.value])
                    ELSE IF next.kind = "direct"
                    THEN /\ tasks' = [tasks EXCEPT ![i] =
                                [t EXCEPT !.pc = "direct", !.phase = 2, !.data = made.value,
                                          !.issuedAt = clock, !.requests = @ + 1]]
                         /\ requests' = requests \cup
                                {[registry |-> reg, at |-> clock, task |-> i,
                                  n |-> t.requests + 1, via |-> "axios.get"]}
                         /\ UNCHANGED <<lastRequestTime, call>>
                    ELSE Finish(i, t, next)
           ELSE Finish(i, t, afterSecond(reg, t.packageName, t.data, made.value, clock))
    /\ UNCHANGED <<clock, probe>>

\* the backoff timer of makeRequestWithRetry fires: the next attempt
Retry(i) ==
    /\ Started
    /\ i \in DOMAIN tasks
    /\ tasks[i].pc = "backoff"
    /\ clock >= tasks[i].wakeAt
    /\ Enter(i, [tasks[i] EXCEPT !.attempt = @ + 1])
    /\ UNCHANGED <<clock, probe>>

\* the Go proxy answers GoHandler.getPackageInfo's axios.get of @v/list
RespondList(i, resp) ==
    /\ Started
    /\ i \in DOMAIN tasks
    /\ tasks[i].pc = "direct"
    /\ Finish(i, [tasks[i] EXCEPT !.listAnswer = resp.status],
              afterDirect(tasks[i].packageName, tasks[i].data, resp, clock))
    /\ UNCHANGED <<clock, probe>>

\* a variant of collect: the entries in the order the invocations completed
collectAsCompleted(ts) ==
    Arr([k \in DOMAIN ts |-> ts[CHOOSE i \in DOMAIN ts : ts[i].rank = k].out.value])

\* Promise.all(promises): the array of the entries, in the order of the promises
collect(ts) == Arr([i \in DOMAIN ts |-> ts[i].out.value])

\* the awaited promise of the call settles: a single lookup ends as its
\* handler invocation did, a batch with what Promise.all resolves to
Settle ==
    /\ ~Settled
    /\ tasks # <<>>
    /\ Quiet
    /\ call' = [call EXCEPT !.outcome =
                  IF IsBatch
                  THEN Return(collect(tasks))
                  ELSE tasks[1].out]
    /\ UNCHANGED <<clock, lastRequestTime, tasks, requests, probe>>

\* time passes, up to the next timer that is due: a timer fires when it is due,
\* and no request in flight is left unanswered for longer than MaxLatency
InFlight == {i \in DOMAIN tasks : tasks[i].pc \in {"inflight", "direct"}}
Timers == {i \in DOMAIN tasks : tasks[i].pc \in {"sleep", "backoff"}}

Deadlines == {tasks[i].wakeAt : i \in Timers}

Tick ==
    /\ Deadlines # {}
    /\ SetMin(Deadlines) > clock
    /\ \A i \in InFlight : SetMin(Deadlines) <= tasks[i].issuedAt + MaxLatency
    /\ clock' = SetMin(Deadlines)
    /\ UNCHANGED <<lastRequestTime, call, tasks, requests, probe>>

Next ==
    \/ CanCall /\ \E p \in PackageNames, r \in RegistryTags : getLatestVersion(p, r)
    \/ CanCall /\ \E p \in PackageNames, v \in Versions, r \in RegistryTags :
                      checkVersionExists(p, v, r)
    \/ CanCall /\ \E p \in PackageNames, r \in RegistryTags : getPackageInfo(p, r)
    \/ CanCall /\ \E b \in Batches(NameItems), r \in RegistryTags : getLatestVersions(b, r)
    \/ CanCall /\ \E b \in Batches(VersionItems), r \in RegistryTags : checkVersionsExist(b, r)
    \/ CanCall /\ \E b \in Batches(NameItems), r \in RegistryTags : getPackagesInfo(b, r)
    \/ \E i \in DOMAIN tasks : StartTask(i)
    \/ \E i \in DOMAIN tasks : Wake(i)
    \/ \E i \in DOMAIN tasks : \E resp \in Answers(call.registry) : Respond(i, resp)
    \/ \E i \in DOMAIN tasks : Retry(i)
    \/ \E i \in DOMAIN tasks, resp \in ListResponses : RespondList(i, resp)
    \/ Settle
    \/ Tick

Spec == Init /\ [][Next]_vars

(***************************************************************************)
(* Progress.  Once a call is made, its steps are taken: the event loop     *)
(* runs what is ready, a timer that is due fires, and every request is     *)
(* answered or hits the timeout of its axios instance.                     *)
(***************************************************************************)
Run ==
    \/ \E i \in DOMAIN tasks : StartTask(i)
    \/ \E i \in DOMAIN tasks : Wake(i)
    \/ \E i \in DOMAIN tasks : \E resp \in Answers(call.registry) : Respond(i, resp)
    \/ \E i \in DOMAIN tasks : Retry(i)
    \/ \E i \in DOMAIN tasks, resp \in ListResponses : RespondList(i, resp)
    \/ Settle
    \/ Tick

\* the calls made: any single lookup (the lookups that ask twice among them),
\* and the batches on a registry asked through makeRequest alone and on
\* Maven, asked through makeRequestWithRetry
BatchRegistries == {"npm", "maven"}

NextLive ==
    \/ CanCall /\ \E p \in PackageNames, r \in RegistryTags : getLatestVersion(p, r)
    \/ CanCall /\ \E p \in PackageNames, v \in Versions, r \in RegistryTags :
                      checkVersionExists(p, v, r)
    \/ CanCall /\ \E p \in PackageNames, r \in RegistryTags : getPackageInfo(p, r)
    \/ CanCall /\ \E b \in Batches(NameItems), r \in BatchRegistries : getLatestVersions(b, r)
    \/ CanCall /\ \E b \in Batches(VersionItems), r \in BatchRegistries :
                      checkVersionsExist(b, r)
    \/ CanCall /\ \E b \in Batches(NameItems), r \in BatchRegistries : getPackagesInfo(b, r)
    \/ Run

LiveSpec == Init /\ [][NextLive]_vars /\ WF_vars(Run)

(***************************************************************************)
(* The response mapping of makeRequest on its own: one answer of the       *)
(* registry, of any status or transport failure, is handed to it.          *)
(***************************************************************************)
ProbeStatuses == 100..599
ProbeCodes == {"ENOTFOUND", "ECONNREFUSED", "ECONNABORTED", "ECONNRESET"}

ProbeResponses ==
    {Http(st, txt, IF st \in 200..299 THEN FullDoc ELSE Null) :
        st \in ProbeStatuses, txt \in {"", "Status Text"}}
    \cup {Failure(c) : c \in ProbeCodes}

InitPolicy ==
    /\ clock = StartClock
    /\ lastRequestTime = [r \in Registries |-> 0]
    /\ call = NoCall
    /\ tasks = <<>>
    /\ requests = {}
    /\ probe \in {[resp |-> r, outcome |-> [kind |-> "none"], first |-> NoCall] :
                    r \in ProbeResponses}

ApplyMapping ==
    /\ probe.outcome.kind = "none"
    /\ probe' = [probe EXCEPT !.outcome = responseMapping(probe.resp)]
    /\ UNCHANGED <<clock, lastRequestTime, call, tasks, requests>>

NextPolicy == ApplyMapping

PolicySpec == InitPolicy /\ [][NextPolicy]_vars

(***************************************************************************)
(* checkVersionExists made twice, one call after the other on the same     *)
(* PackageVersionChecker, against a remote state that does not change: the *)
(* registry gives every request of both calls the same answer, probe.resp. *)
(* probe.first keeps the first call and what it settled with.              *)
(***************************************************************************)
RemoteStates == Responses \cup MavenResponses

InitRepeat ==
    /\ clock = StartClock
    /\ lastRequestTime = [r \in Registries |-> 0]
    /\ call = NoCall
    /\ tasks = <<>>
    /\ requests = {}
    /\ probe \in {[resp |-> r, outcome |-> [kind |-> "none"], first |-> NoCall] :
                    r \in RemoteStates}

FirstCheck(packageName, version, registry) ==
    /\ probe.first = NoCall
    /\ probe.resp \in Answers(registry)
    /\ checkVersionExists(packageName, version, registry)

\* the first call has settled: the handlers keep their lastRequestTime
Again ==
    /\ call # NoCall
    /\ Settled
    /\ probe.first = NoCall
    /\ probe' = [probe EXCEPT !.first = call]
    /\ call' = NoCall
    /\ tasks' = <<>>
    /\ UNCHANGED <<clock, lastRequestTime, requests>>

SecondCheck ==
    /\ probe.first # NoCall
    /\ checkVersionExists(probe.first.args[1], probe.first.args[2], probe.first.registry)

NextRepeat ==
    \/ CanCall /\ \E p \in PackageNames, v \in Versions, r \in RegistryTags :
                      FirstCheck(p, v, r)
    \/ Again
    \/ CanCall /\ SecondCheck
    \/ \E i \in DOMAIN tasks : StartTask(i)
    \/ \E i \in DOMAIN tasks : Wake(i)
    \/ \E i \in DOMAIN tasks : Respond(i, probe.resp)
    \/ \E i \in DOMAIN tasks : Retry(i)
    \/ Settle
    \/ Tick

RepeatSpec == InitRepeat /\ [][NextRepeat]_vars

(***************************************************************************)
(* Two lookups made one after the other on the same PackageVersionChecker, *)
(* each for any registry: the handlers constructed with it serve both.     *)
(***************************************************************************)
FirstLookup(packageName, registry) ==
    /\ probe.first = NoCall
    /\ probe.resp \in Answers(registry)
    /\ getLatestVersion(packageName, registry)

SecondLookup(registry) ==
    /\ probe.first # NoCall
    /\ probe.resp \in Answers(registry)
    /\ getLatestVersion(probe.first.args[1], registry)

NextSequence ==
    \/ CanCall /\ \E p \in PackageNames, r \in RegistryTags : FirstLookup(p, r)
    \/ Again
    \/ CanCall /\ \E r \in RegistryTags : SecondLookup(r)
    \/ \E i \in DOMAIN tasks : StartTask(i)
    \/ \E i \in DOMAIN tasks : Wake(i)
    \/ \E i \in DOMAIN tasks : Respond(i, probe.resp)
    \/ \E i \in DOMAIN tasks : Retry(i)
    \/ Settle
    \/ Tick

SequenceSpec == InitRepeat /\ [][NextSequence]_vars

(***************************************************************************)
(* A single lookup, then the batch of one item that asks the same, on the  *)
(* same PackageVersionChecker and a supported registry.  The remote state  *)
(* does not change and no request fails in transport: the registry answers *)
(* the requests of both calls with probe.resp, a document or a 404, and    *)
(* the Go proxy answers @v/list with the list that goes with it.           *)
(***************************************************************************)
Documents == {r \in RemoteStates : r.status \in {200, 404}}

ListOf(resp) ==
    IF resp.status = 200 /\ resp.body = FullDoc
    THEN Http(200, "OK", Str(<<"v", "1">>))
    ELSE Http(404, "Not Found", Null)

InitConsistency ==
    /\ clock = StartClock
    /\ lastRequestTime = [r \in Registries |-> 0]
    /\ call = NoCall
    /\ tasks = <<>>
    /\ requests = {}
    /\ probe \in {[resp |-> r, outcome |-> [kind |-> "none"], first |-> NoCall] :
                    r \in Documents}

SingleLookup(op, packageName, version, registry) ==
    /\ probe.first = NoCall
    /\ probe.resp \in Answers(registry)
    /\ IF op = "getLatestVersion" THEN getLatestVersion(packageName, registry)
       ELSE IF op = "checkVersionExists"
       THEN checkVersionExists(packageName, version, registry)
       ELSE getPackageInfo(packageName, registry)

\* the batch call of one item for what the first call asked
BatchOfOne ==
    LET first == probe.first
    IN  /\ first # NoCall
        /\ IF first.op = "getLatestVersion"
           THEN getLatestVersions(Arr(<<first.args[1]>>), first.registry)
           ELSE IF first.op = "checkVersionExists"
           THEN checkVersionsExist(Arr(<<Obj(first.args[1], first.args[2])>>),
                                   first.registry)
           ELSE getPackagesInfo(Arr(<<first.args[1]>>), first.registry)

NextConsistency ==
    \/ CanCall /\ \E op \in SingleOps, p \in PackageNames, v \in Versions,
                      r \in Registries : SingleLookup(op, p, v, r)
    \/ Again
    \/ CanCall /\ BatchOfOne
    \/ \E i \in DOMAIN tasks : StartTask(i)
    \/ \E i \in DOMAIN tasks : Wake(i)
    \/ \E i \in DOMAIN tasks : Respond(i, probe.resp)
    \/ \E i \in DOMAIN tasks : RespondList(i, ListOf(probe.resp))
    \/ Settle
    \/ Tick

ConsistencySpec == InitConsistency /\ [][NextConsistency]_vars

(***************************************************************************)
(* The tool-call handler of index.ts (CallToolRequestSchema).  The request *)
(* it is handed, probe.request, has a tool name and an arguments value;    *)
(* probe.outcome is what the handler ends with: the response it returns,   *)
(* or what it throws to the transport.  A registry argument is the text of *)
(* the tag, "" when it is missing or empty.                                *)
(***************************************************************************)
SUPPORTED_REGISTRIES == {"npm", "pypi", "maven", "nuget", "rubygems", "crates", "go"}

ToolNames ==
    {"get_latest_version", "check_version_exists", "get_package_info",
     "get_latest_versions", "check_versions_exist", "get_packages_info"}

ToolArgs(package_name, version, registry, packages) ==
    [t |-> "object", package_name |-> package_name, version |-> version,
     registry |-> registry, packages |-> packages]

\* JSON.stringify of a result: a member whose value is undefined is left out
\* (registry, found, error and timestamp never are undefined)
stringifyObject(result) ==
    [k \in {f \in DOMAIN result :
               \/ f \in {"registry", "found", "error", "timestamp"}
               \/ result[f] # Undefined} |-> result[k]]

stringify(value) ==
    IF "t" \in DOMAIN value /\ value.t = "array"
    THEN [json |-> [i \in DOMAIN value.items |-> stringifyObject(value.items[i])]]
    ELSE [json |-> stringifyObject(value)]

\* a variant of catchBlock: the error is thrown on
catchBlockRethrowing(error) == Throw(error)

\* the catch block, lines 935-945
catchBlock(error) ==
    Return([content |-> [prefix |-> "Error: ", message |-> error], isError |-> TRUE])

\* the return statement of each case
success(result) == Return([content |-> stringify(result)])

UnsupportedByTool(registry) ==
    Throw(MsgArg("Unsupported registry (Supported: npm, pypi, maven, nuget, rubygems, crates, go): ",
                 registry))

\* the checks of the cases of the single lookups
checkSingle(name, args) ==
    IF \/ Falsy(args.package_name)
       \/ name = "check_version_exists" /\ Falsy(args.version)
       \/ args.registry = ""
    THEN IF name = "check_version_exists"
         THEN Throw(Msg("Missing required parameters: package_name, version, and registry"))
         ELSE Throw(Msg("Missing required parameters: package_name and registry"))
    ELSE IF args.registry \notin SUPPORTED_REGISTRIES
    THEN UnsupportedByTool(args.registry)
    ELSE Proceed

\* for (const pkg of packages): the first package that is refused
packageCheck(pkg) ==
    IF pkg.t \in {"null", "undefined"}
    THEN TypeError("Cannot read properties of null (reading 'package_name')")
    ELSE IF pkg.t # "object" \/ Falsy(pkg.package_name) \/ Falsy(pkg.version)
    THEN Throw(Msg("Each package must have package_name and version properties"))
    ELSE Proceed

\* the checks of the cases of the batch lookups
checkBatch(name, args) ==
    IF Falsy(args.packages) \/ ~IsArr(args.packages) \/ args.packages.items = <<>>
    THEN Throw(Msg("Missing or invalid packages parameter: must be a non-empty array"))
    ELSE IF args.registry = ""
    THEN Throw(Msg("Missing required parameter: registry"))
    ELSE IF args.registry \notin SUPPORTED_REGISTRIES
    THEN UnsupportedByTool(args.registry)
    ELSE IF name = "check_versions_exist"
    THEN LET refused == {i \in DOMAIN args.packages.items :
                            packageCheck(args.packages.items[i]).kind = "throw"}
         IN  IF refused = {} THEN Proceed
             ELSE packageCheck(args.packages.items[SetMin(refused)])
    ELSE Proceed

\* the handler up to the call of the PackageVersionChecker, lines 794-933
checkArguments(name, args) ==
    IF Falsy(args) \/ args.t # "object"
    THEN Throw(Msg("Invalid arguments: must be an object"))
    ELSE IF name \in {"get_latest_version", "check_version_exists", "get_package_info"}
    THEN checkSingle(name, args)
    ELSE IF name \in ToolNames
    THEN checkBatch(name, args)
    ELSE Throw(MsgArg("Unknown tool: ", name))

\* the call the case makes
invoke(name, args) ==
    IF name = "get_latest_version" THEN getLatestVersion(args.package_name, args.registry)
    ELSE IF name = "check_version_exists"
    THEN checkVersionExists(args.package_name, args.version, args.registry)
    ELSE IF name = "get_package_info" THEN getPackageInfo(args.package_name, args.registry)
    ELSE IF name = "get_latest_versions" THEN getLatestVersions(args.packages, args.registry)
    ELSE IF name = "check_versions_exist"
    THEN checkVersionsExist(args.packages, args.registry)
    ELSE getPackagesInfo(args.packages, args.registry)

ArgumentValues ==
    {Undefined, Null, Str(<<"a">>)}
    \cup {ToolArgs(p, v, r, pk) :
            p \in {Undefined, Str(<<"g", ":", "a">>), Num(42)},
            v \in {Undefined, Str(<<"1">>)},
            r \in {"", "rubygems", "maven", "go", "invalid-registry", "constructor"},
            pk \in {Undefined, Arr(<<>>), Arr(<<Str(<<"g", ":", "a">>)>>), Arr(<<Null>>),
                    Arr(<<Obj(Str(<<"g", ":", "a">>), Str(<<"1">>))>>),
                    Arr(<<Obj(Str(<<"g", ":", "a">>), Undefined)>>)}}

ToolRequests ==
    {[name |-> n, args |-> a] : n \in ToolNames \cup {"unknown_tool"}, a \in ArgumentValues}

InitTool ==
    /\ clock = StartClock
    /\ lastRequestTime = [r \in Registries |-> 0]
    /\ call = NoCall
    /\ tasks = <<>>
    /\ requests = {}
    /\ probe \in {[resp |-> Failure(""), outcome |-> [kind |-> "none"], first |-> NoCall,
                    request |-> q] : q \in ToolRequests}

\* the handler is called: the arguments are checked and, if nothing is
\* thrown, the operation of the PackageVersionChecker is called
CallTool ==
    /\ probe.outcome.kind = "none"
    /\ CanCall
    /\ LET checked == checkArguments(probe.request.name, probe.request.args)
       IN  IF checked.kind = "throw"
           THEN /\ probe' = [probe EXCEPT !.outcome = catchBlock(checked.error)]
                /\ UNCHANGED <<clock, lastRequestTime, call, tasks, requests>>
           ELSE invoke(probe.request.name, probe.request.args)

\* the awaited operation has returned or thrown
Reply ==
    /\ probe.outcome.kind = "none"
    /\ call # NoCall
    /\ Settled
    /\ probe' = [probe EXCEPT !.outcome =
                    IF call.outcome.kind = "throw"
                    THEN catchBlock(call.outcome.error)
                    ELSE success(call.outcome.value)]
    /\ UNCHANGED <<clock, lastRequestTime, call, tasks, requests>>

NextTool ==
    \/ CallTool
    \/ Reply
    \/ Run

ToolSpec == InitTool /\ [][NextTool]_vars /\ WF_vars(NextTool)

(***************************************************************************)
(* Properties.                                                             *)
(***************************************************************************)
\* the packages argument of the batch call made, when it is an array
Input == call.args[1].items

BatchMade == call.op \in BatchOps
SingleMade == call.op \in SingleOps

\* a batch call the precondition of _processBatch admits
AdmittedBatch ==
    /\ BatchMade
    /\ IsArr(call.args[1])
    /\ Len(Input) >= 1
    /\ Len(Input) <= MaxBatchSize

\* C1. Batch error isolation: a batch call on a supported registry with 1 to
\* 100 items, whatever the items are, never throws; the entry of an item
\* whose invocation threw has found = false and the failure's message as its
\* error, and the entry of any other item is what its invocation returned.
C1_BatchErrorIsolation ==
    (AdmittedBatch /\ call.registry \in Registries) =>
        /\ call.outcome.kind # "throw"
        /\ call.outcome.kind = "return" =>
              \A i \in DOMAIN tasks :
                  LET entry == call.outcome.value.items[i]
                      ended == tasks[i].ended
                  IN  IF ended.kind = "throw"
                      THEN entry.found = FALSE /\ entry.error = ended.error
                      ELSE entry = ended.value

\* C2. Batch size precondition: a batch call whose packages argument is not
\* an array, is empty or has more than 100 items ends with a thrown error, no
\* invocation having been started and no request issued; the array a batch of
\* 1 to 100 items returns has as many entries as the input has items.
C2_BatchSizePrecondition ==
    BatchMade =>
        IF AdmittedBatch
        THEN call.outcome.kind = "return" =>
                 Len(call.outcome.value.items) = Len(Input)
        ELSE /\ call.outcome.kind = "throw"
             /\ tasks = <<>>
             /\ requests = {}
             /\ ~unsupported(call.registry) =>
                    call.outcome.error.text \in
                        {"Packages must be a non-empty array",
                         "Maximum 100 packages allowed per request"}

C2_Witness_OversizedBatchRejected ==
    /\ BatchMade
    /\ call.registry \in Registries
    /\ IsArr(call.args[1])
    /\ Len(Input) = MaxBatchSize + 1
    /\ call.outcome = Throw(Msg("Maximum 100 packages allowed per request"))

\* C3. Positional correspondence: in the array a batch call returns, the
\* entry at index i is the result (or the synthesized error) of the
\* invocation made for the input item at index i, in whatever order the
\* invocations completed.
C3_PositionalCorrespondence ==
    (BatchMade /\ call.outcome.kind = "return") =>
        /\ Len(call.outcome.value.items) = Len(Input)
        /\ \A i \in DOMAIN tasks :
              /\ tasks[i].item = Input[i]
              /\ call.outcome.value.items[i] = tasks[i].out.value

C3_Witness_CompletedOutOfOrder ==
    /\ BatchMade
    /\ call.outcome.kind = "return"
    /\ \E i, j \in DOMAIN tasks :
          /\ i < j
          /\ tasks[i].rank > tasks[j].rank
          /\ tasks[i].out.value # tasks[j].out.value

\* C4. Minimum inter-request interval: any two outbound requests issued by
\* one handler instance, the concurrent invocations of a batch included, are
\* issued at least rateLimitDelay (100 ms) apart.
C4_MinimumInterval ==
    \A a, b \in requests :
        (a # b /\ a.registry = b.registry) =>
            \/ a.at - b.at >= rateLimitDelay
            \/ b.at - a.at >= rateLimitDelay

\* two invocations of one batch issue their requests through makeRequest at
\* the same time
C4_Witness_BatchRequestsCoincide ==
    /\ BatchMade
    /\ \E a, b \in requests :
          /\ a.task # b.task
          /\ a.at = b.at
          /\ a.via = "makeRequest"
          /\ b.via = "makeRequest"

\* the arguments of the single lookup made that its validation rejects, as
\* the limits are stated: not a string, empty, or longer than the limit
BadName(v) == ~IsString(v) \/ v.s = <<>> \/ Len(v.s) > MaxPackageNameLength
BadVersion(v) == ~IsString(v) \/ v.s = <<>> \/ Len(v.s) > MaxVersionLength

RejectedArguments ==
    /\ SingleMade
    /\ \/ BadName(call.args[1])
       \/ call.op = "checkVersionExists" /\ BadVersion(call.args[2])

\* C5. Unsupported registry: with a registry tag that is none of npm, pypi,
\* maven, nuget, rubygems, crates and go, each of the six operations ends
\* with a thrown error whose message contains "Unsupported registry", and no
\* request is issued.  (A single lookup whose arguments its validation
\* rejects is left aside here: it ends with the validation error, validation
\* coming first.)
C5_UnsupportedRegistry ==
    (call.op # "none" /\ call.registry \notin Registries /\ ~RejectedArguments) =>
        /\ requests = {}
        /\ call.outcome.kind # "return"
        /\ call.outcome.kind = "throw" =>
               call.outcome.error.text = "Unsupported registry: "

\* C6. Single-lookup validation fails fast: a single lookup whose package
\* name is empty, not a string or longer than 500 characters, or (for
\* checkVersionExists) whose version is empty, not a string or longer than
\* 100 characters, throws the validation error naming the violated limit,
\* whatever the registry; no request is issued and no handler's
\* lastRequestTime changes.
C6_ValidationFailsFast ==
    RejectedArguments =>
        /\ call.outcome.kind = "throw"
        /\ call.outcome.error =
              LET name == call.args[1]
                  version == call.args[2]
              IN  IF ~IsString(name) \/ name.s = <<>>
                  THEN Msg("Package name must be a non-empty string")
                  ELSE IF Len(name.s) > MaxPackageNameLength
                  THEN Msg("Package name too long (max 500 characters)")
                  ELSE IF ~IsString(version) \/ version.s = <<>>
                  THEN Msg("Version must be a non-empty string")
                  ELSE Msg("Version string too long (max 100 characters)")
        /\ tasks = <<>>
        /\ requests = {}
        /\ lastRequestTime = [r \in Registries |-> 0]

C6_Witness_LongNameRejected ==
    /\ SingleMade
    /\ call.registry \in Registries
    /\ IsString(call.args[1])
    /\ Len(call.args[1].s) = MaxPackageNameLength + 1
    /\ call.outcome = Throw(Msg("Package name too long (max 500 characters)"))

\* trimmed, non-empty and at most max characters long
WellFormed(v, max) ==
    /\ IsString(v)
    /\ v.s # <<>>
    /\ Trim(v.s) = v.s
    /\ Len(v.s) <= max

\* C7. Validated query shape: the package name a single lookup hands to a
\* handler is trimmed, non-empty and at most 500 characters long, and so is,
\* with at most 100 characters, the version checkVersionExists hands over.
C7_ValidatedQueryShape ==
    SingleMade =>
        \A i \in DOMAIN tasks :
            /\ WellFormed(tasks[i].packageName, MaxPackageNameLength)
            /\ call.op = "checkVersionExists" =>
                   WellFormed(tasks[i].version, MaxVersionLength)

\* C8. Batch items are validated as single lookups are: an item whose package
\* name (or version, for checkVersionsExist) the validation of the single
\* lookups rejects never causes a request.
C8_BatchItemsValidated ==
    BatchMade =>
        \A i \in DOMAIN tasks :
            (\/ validatePackageName(tasks[i].packageName).kind = "throw"
             \/ /\ call.op = "checkVersionsExist"
                /\ validateVersion(tasks[i].version).kind = "throw")
            => tasks[i].requests = 0

\* C9. Not-found is a value: when the registry answers 404 to the request
\* that looks the package up, the handler method returns (does not throw) a
\* result that reports found = false or exists = false and carries the
\* message "Package not found".
C9_NotFoundIsAValue ==
    \A i \in DOMAIN tasks :
        (tasks[i].pc = "done" /\ tasks[i].phase = 1 /\ tasks[i].answer = 404) =>
            /\ tasks[i].ended.kind = "return"
            /\ LET result == tasks[i].ended.value
               IN  /\ \/ result.found = FALSE
                      \/ "exists" \in DOMAIN result /\ result.exists = Bool(FALSE)
                   /\ "error" \in DOMAIN result
                   /\ result.error = PackageNotFound

\* C10. The response mapping is a function of the answer: a 2xx answer gives
\* its body, 404 gives null, 429 the rate-limit error, a status of 500 or
\* more the server error with status and statusText, any other status the
\* HTTP error with status and statusText, an unresolvable host or a refused
\* connection the network error and an exceeded timeout the timeout error.
C10_ResponseMapping ==
    probe.outcome.kind # "none" =>
        LET r == probe.resp
            o == probe.outcome
        IN  /\ r.status \in 200..299 => o = Return(r.body)
            /\ r.status = 404 => o = Return(Null)
            /\ r.status = 429 =>
                   o = Throw(Msg("Rate limit exceeded. Please try again later."))
            /\ r.status >= 500 =>
                   o = Throw([text |-> "Server error: ", status |-> r.status,
                              arg |-> r.statusText])
            /\ (r.status # 0 /\ r.status < 500 /\ r.status \notin (200..299) \cup {404, 429}) =>
                   /\ o.kind = "throw"
                   /\ o.error.text = "HTTP "
                   /\ o.error.status = r.status
                   /\ r.statusText # "" => o.error.arg = r.statusText
            /\ r.code \in {"ENOTFOUND", "ECONNREFUSED"} =>
                   o = Throw(Msg("Network error: Unable to reach registry"))
            /\ r.code = "ECONNABORTED" => o = Throw(Msg("Request timeout"))

C10_Witness_ServerErrorMapped ==
    /\ probe.resp.status = 500
    /\ probe.resp.statusText # ""
    /\ probe.outcome.kind = "throw"

\* an invocation of a single lookup on a supported registry that has ended
EndedLookups ==
    {i \in DOMAIN tasks :
        SingleMade /\ call.registry \in Registries /\ tasks[i].pc = "done"}

\* a request of the invocation failed
RequestFailed(t) == t.failed # Msg("")

\* the statuses the request policy does not fail on
Answered == (200..299) \cup {404}

MavenTasks == {i \in DOMAIN tasks : call.registry = "maven"}

\* the requests an invocation has issued
RequestsOf(i) == {q \in requests : q.task = i}

\* C12. Maven retry outcome: makeRequestWithRetry makes at most maxRetries
\* (3) attempts; an attempt that does not fail, one answered 404 included,
\* ends it with that attempt's value and no further attempt; when all
\* attempts have failed it throws the error of the last attempt.
C12_RetryOutcome ==
    \A i \in MavenTasks :
        LET t == tasks[i]
        IN  /\ t.attempt <= mavenMaxRetries
            /\ Cardinality(RequestsOf(i)) <= mavenMaxRetries
            /\ t.pc = "backoff" => (t.answer \notin Answered /\ t.attempt < mavenMaxRetries)
            /\ (t.pc = "done" /\ t.requests > 0) =>
                  /\ t.requests = t.attempt
                  /\ IF t.answer \in Answered
                     THEN /\ t.ended.kind = "return"
                          /\ t.answer = 404 =>
                                t.ended = afterFirst("maven", handlerOp(call.op),
                                              t.packageName, t.version, Null,
                                              t.ended.value.timestamp)
                     ELSE /\ t.attempt = mavenMaxRetries
                          /\ t.ended = Throw(t.failed)

C12_Witness_RetriesExhausted ==
    \E i \in MavenTasks :
        /\ tasks[i].pc = "done"
        /\ tasks[i].requests = mavenMaxRetries
        /\ tasks[i].ended = Throw(Msg("Request timeout"))

\* C13. Maven retry backoff: after the failure of attempt k, k < maxRetries,
\* the next attempt is not issued before 1000 ms * k have elapsed; after the
\* failure of the last attempt nothing is waited for before the error is
\* raised.
C13_RetryBackoff ==
    \A i \in MavenTasks :
        LET t == tasks[i]
        IN  /\ (t.pc = "inflight" /\ t.attempt > 1) =>
                   t.issuedAt - t.failedAt >= 1000 * (t.attempt - 1)
            /\ \A a, b \in RequestsOf(i) :
                   b.n = a.n + 1 => b.at - a.at >= 1000 * a.n
            /\ t.pc = "backoff" => t.attempt < mavenMaxRetries
            /\ (t.pc = "done" /\ t.attempt = mavenMaxRetries /\ t.answer \notin Answered) =>
                   /\ t.ended.kind = "throw"
                   /\ t.out.kind = "return" => t.out.value.timestamp = t.failedAt

C13_Witness_ThirdAttemptIssued ==
    \E i \in MavenTasks :
        /\ tasks[i].pc = "inflight"
        /\ tasks[i].attempt = mavenMaxRetries
        /\ tasks[i].issuedAt - tasks[i].failedAt = 2000

\* a package name that does not split on ':' into a non-empty groupId and a
\* non-empty artifactId: no colon, nothing before the first colon, or nothing
\* between it and the next colon or the end
NoCoordinate(s) ==
    LET colons == {k \in 1..Len(s) : s[k] = ":"}
    IN  \/ colons = {}
        \/ LET first == CHOOSE k \in colons : \A l \in colons : k <= l
           IN  first = 1 \/ first = Len(s) \/ s[first + 1] = ":"

MalformedTasks ==
    {i \in MavenTasks :
        IsString(tasks[i].packageName) /\ NoCoordinate(tasks[i].packageName.s)}

\* C14. Maven malformed coordinate: for a package name that does not split
\* into a non-empty groupId and a non-empty artifactId, each of the three
\* Maven operations returns (does not throw) a result with found = false and
\* the error "Invalid format. Use groupId:artifactId", issues no request and
\* leaves the Maven handler's lastRequestTime as it was.
C14_MalformedCoordinate ==
    /\ \A i \in MalformedTasks :
          LET t == tasks[i]
          IN  /\ t.pc \in {"new", "done"}
              /\ t.requests = 0
              /\ RequestsOf(i) = {}
              /\ t.pc = "done" =>
                    /\ t.ended.kind = "return"
                    /\ t.ended.value.found = FALSE
                    /\ t.ended.value.error = Msg("Invalid format. Use groupId:artifactId")
    /\ (tasks # <<>> /\ MalformedTasks = DOMAIN tasks) =>
          /\ requests = {}
          /\ lastRequestTime["maven"] = 0

C14_Witness_MalformedReturned ==
    /\ call.op = "checkVersionExists"
    /\ call.registry = "maven"
    /\ call.args[1] = Str(<<"g", ":">>)
    /\ call.outcome.kind = "return"
    /\ call.outcome.value.error = InvalidFormat

\* the invocations of GoHandler.getPackageInfo that have ended
GoInfoEnded ==
    {i \in DOMAIN tasks :
        /\ call.registry = "go"
        /\ handlerOp(call.op) = "getPackageInfo"
        /\ tasks[i].pc = "done"}

\* C15. Go version-list failure is swallowed: when the @latest request has
\* succeeded, getPackageInfo returns found = true whatever becomes of the
\* @v/list request; when that request fails (network error, timeout, non-2xx
\* status) the result's versions is the empty list, and there is no error
\* field.
C15_ListFailureSwallowed ==
    \A i \in GoInfoEnded :
        LET t == tasks[i]
        IN  t.answer \in 200..299 =>
                /\ t.phase = 2
                /\ t.ended.kind = "return"
                /\ t.ended.value.found = TRUE
                /\ "error" \notin DOMAIN t.ended.value
                /\ t.listAnswer \notin 200..299 => t.ended.value.versions = Arr(<<>>)

C15_Witness_ListTimedOut ==
    \E i \in GoInfoEnded :
        /\ tasks[i].phase = 2
        /\ tasks[i].listAnswer = 0
        /\ tasks[i].ended.kind = "return"
        /\ tasks[i].ended.value.versions = Arr(<<>>)

\* the PackageResults produced so far: what a handler method returned for a
\* single lookup, and the entries of a batch (returned by the processor or
\* synthesized by the catch block of _processBatch)
ProducedResults ==
    {tasks[i].out.value : i \in {j \in DOMAIN tasks : tasks[j].out.kind = "return"}}

\* C16. Result shape: every PackageResult produced by any of the six
\* operations (success, not-found, malformed-format result or batch-synthesized
\* error entry) has the fields package, registry and timestamp, and its package
\* is a string.
C16_ResultShape ==
    \A r \in ProducedResults :
        /\ {"package", "registry", "timestamp"} \subseteq DOMAIN r
        /\ IsString(r.package)

C16_Witness_SynthesizedEntry ==
    /\ BatchMade
    /\ \E i \in DOMAIN tasks :
          /\ tasks[i].ended.kind = "throw"
          /\ tasks[i].out.kind = "return"
          /\ ~IsString(tasks[i].out.value.package)

\* the invocations whose handler method returned a result
Returned == {i \in DOMAIN tasks : tasks[i].ended.kind = "return"}

\* C17. Error implies not-found: in every PackageResult produced by any
\* operation, a result with an error field has found = false and a result with
\* found = true has no error field; the extra fields the handlers merge into a
\* result leave package, registry, found and error as the constructor set them.
C17_ErrorImpliesNotFound ==
    /\ \A r \in ProducedResults :
          /\ "error" \in DOMAIN r => r.found = FALSE
          /\ r.found = TRUE => "error" \notin DOMAIN r
    /\ \A i \in Returned :
          LET r == tasks[i].ended.value
          IN  /\ r.package = tasks[i].packageName
              /\ r.registry = call.registry
              /\ r.found \in BOOLEAN
              /\ "error" \in DOMAIN r => r.error \in {PackageNotFound, InvalidFormat}

C17_Witness_ExtraFieldMerged ==
    \E i \in Returned :
        /\ "error" \in DOMAIN tasks[i].ended.value
        /\ "version" \in DOMAIN tasks[i].ended.value
        /\ tasks[i].answer = 404

\* C18. Latest version is present on success: for every registry, a result of
\* getLatestVersion with found = true has a latest_version that is a non-empty
\* string, whatever well-formed or partial document the registry returned.
C18_LatestVersionPresent ==
    \A i \in Returned :
        (handlerOp(call.op) = "getLatestVersion" /\ tasks[i].ended.value.found = TRUE) =>
            /\ "latest_version" \in DOMAIN tasks[i].ended.value
            /\ IsString(tasks[i].ended.value.latest_version)
            /\ tasks[i].ended.value.latest_version.s # <<>>

C18_Witness_LatestFromPartialDocument ==
    \E i \in Returned :
        /\ call.op = "getLatestVersion"
        /\ tasks[i].answer = 200
        /\ tasks[i].ended.value.found = TRUE
        /\ tasks[i].ended.value.latest_version = Undefined

NoDuplicates(seq) ==
    \A i, j \in 1..Len(seq) : seq[i] = seq[j] => i = j

\* C20. Maven version list: the versions of a successful Maven getPackageInfo
\* result holds each distinct version taken from the v or latestVersion member
\* of the returned docs exactly once, missing and null values filtered out: no
\* version string appears twice.
C20_MavenVersionsDistinct ==
    \A i \in Returned :
        (/\ call.registry = "maven"
         /\ handlerOp(call.op) = "getPackageInfo"
         /\ tasks[i].ended.value.found = TRUE) =>
            LET versions == tasks[i].ended.value.versions.items
            IN  /\ \A k \in 1..Len(versions) : ~Falsy(versions[k])
                /\ NoDuplicates(versions)

C20_Witness_MavenInfoFound ==
    \E i \in Returned :
        /\ call.registry = "maven"
        /\ handlerOp(call.op) = "getPackageInfo"
        /\ tasks[i].ended.value.found = TRUE
        /\ Len(tasks[i].ended.value.versions.items) = 2

\* both checkVersionExists calls have settled
BothSettled == probe.first # NoCall /\ call # NoCall /\ Settled

\* exists, as a settled call reports it: absent when the call threw or its
\* result has no exists field
ExistsOf(outcome) ==
    IF outcome.kind = "return" /\ "exists" \in DOMAIN outcome.value
    THEN outcome.value.exists
    ELSE Undefined

\* C19. Idempotence of the version check: for every registry, package and
\* version, two checkVersionExists calls made one after the other against the
\* same unchanged remote state end the same way and return the same exists
\* value.
C19_Idempotence ==
    BothSettled =>
        /\ call.outcome.kind = probe.first.outcome.kind
        /\ ExistsOf(call.outcome) = ExistsOf(probe.first.outcome)
        /\ call.outcome.kind = "return" =>
               call.outcome.value.found = probe.first.outcome.value.found

C19_Witness_SecondCheckWaited ==
    /\ BothSettled
    /\ ExistsOf(call.outcome) = Bool(TRUE)
    /\ \E q \in requests : q.at >= StartClock + rateLimitDelay

\* the issue times of the requests made so far through the handler of a registry
IssueTimes(registry) == {q.at : q \in {x \in requests : x.registry = registry}}

\* a step changes the lastRequestTime of no handler but that of the registry
\* the call is for, and changes that one only by issuing a request
LimiterFrame ==
    \A r \in Registries :
        lastRequestTime'[r] # lastRequestTime[r] =>
            /\ r = call.registry
            /\ clock \in IssueTimes(r)'
            /\ lastRequestTime'[r] = clock

\* the handler of a registry is the same in both calls: the second call is
\* held back by the request of the first, and by no request of another handler
OneHandlerPerRegistry ==
    \A a, b \in requests :
        (a # b /\ a.registry = b.registry
              /\ a.via = "makeRequest" /\ b.via = "makeRequest") =>
            a.at - b.at >= rateLimitDelay \/ b.at - a.at >= rateLimitDelay

\* C21. Rate-limiter state is instance-scoped: the dispatcher holds one handler
\* per registry for its whole lifetime, every call for a registry uses it (a
\* later call is spaced from the requests of an earlier call on that registry),
\* and a request made through one registry's handler leaves the
\* lastRequestTime of every other registry's handler unchanged.
C21_InstanceScopedLimiter ==
    /\ [](OneHandlerPerRegistry
          /\ \A r \in Registries : IssueTimes(r) = {} => lastRequestTime[r] = 0)
    /\ [][LimiterFrame]_vars

C21_Witness_OtherRegistryNotDelayed ==
    /\ probe.first # NoCall
    /\ call.registry # probe.first.registry
    /\ \E a, b \in requests :
          /\ a.registry = probe.first.registry
          /\ b.registry = call.registry
          /\ a.at = b.at
    /\ lastRequestTime[call.registry] = clock

\* a single lookup has been made with a registry tag that names no handler
UnrecognizedSingle == SingleMade /\ call.registry \notin Registries

\* C22. Validation precedes adapter resolution: a single lookup with an
\* invalid package name and an unrecognized registry fails with the
\* package-name validation error, and a checkVersionExists with a valid name,
\* an invalid version and an unrecognized registry fails with the version
\* validation error; neither fails with "Unsupported registry".
C22_ValidationBeforeResolution ==
    UnrecognizedSingle =>
        /\ BadName(call.args[1]) =>
              /\ call.outcome.kind = "throw"
              /\ call.outcome.error \in
                    {Msg("Package name must be a non-empty string"),
                     Msg("Package name too long (max 500 characters)")}
        /\ (/\ call.op = "checkVersionExists"
            /\ ~BadName(call.args[1])
            /\ BadVersion(call.args[2])) =>
              /\ call.outcome.kind = "throw"
              /\ call.outcome.error \in
                    {Msg("Version must be a non-empty string"),
                     Msg("Version string too long (max 100 characters)")}

C22_Witness_BadVersionUnrecognizedRegistry ==
    /\ UnrecognizedSingle
    /\ call.op = "checkVersionExists"
    /\ ~BadName(call.args[1])
    /\ BadVersion(call.args[2])
    /\ call.outcome.kind = "throw"
    /\ call.outcome.error.text # "Unsupported registry: "

\* an answer or a failure has come back to the invocation
Received(i) == tasks[i].answer # 0 \/ tasks[i].failedAt # 0

\* the batch has waited on an invocation: time has passed since the call, or
\* something has come back
Waited == clock > StartClock \/ \E i \in DOMAIN tasks : Received(i)

\* C23. Concurrent fan-out: in a batch of n items every item's operation is
\* started before the batch waits on any of them, so that an item that is
\* slow, times out or fails neither delays nor prevents the start of another;
\* and the batch call ends only after all n operations have completed or
\* failed.
C23_ConcurrentFanOut ==
    (AdmittedBatch /\ call.registry \in Registries) =>
        /\ Waited => Started
        /\ Settled => Quiet

C23_Witness_EndedWithItemInFlight ==
    /\ AdmittedBatch
    /\ call.registry \in Registries
    /\ Started
    /\ Settled
    /\ \E i \in DOMAIN tasks : tasks[i].pc = "inflight"

\* the call made has ended, and so has every invocation it started
Ended == call.outcome.kind \in {"return", "throw"} /\ Quiet

\* C24. Termination: every request being answered or timing out, every single
\* lookup and every batch call eventually returns or throws, and every
\* invocation it started ends; a Maven invocation issues at most maxRetries
\* (3) requests for its logical request and then stops.
C24_Termination ==
    /\ (call.op # "none") ~> Ended
    /\ [](\A i \in DOMAIN tasks :
              /\ tasks[i].attempt <= mavenMaxRetries
              /\ call.registry = "maven" => tasks[i].requests <= mavenMaxRetries)

C24_Witness_BatchEndedAfterRetries ==
    /\ AdmittedBatch
    /\ call.registry = "maven"
    /\ Ended
    /\ \E i \in DOMAIN tasks : tasks[i].requests = mavenMaxRetries
    /\ \E i \in DOMAIN tasks : tasks[i].requests = 1

\* a result but for its timestamp
Untimed(result) == [result EXCEPT !.timestamp = 0]

\* the single lookup returned a result and the batch of one item that asks
\* the same has ended
SingleThenBatch ==
    /\ probe.first # NoCall
    /\ probe.first.outcome.kind = "return"
    /\ IsBatch
    /\ Settled

\* C25. Batch/single consistency: for every supported registry and every
\* package name (and version) the single-lookup validation accepts, the remote
\* state unchanged and no request failing in transport, the batch call of that
\* one item returns exactly one entry, equal to the result of the single
\* lookup in every field but timestamp.
C25_BatchSingleConsistency ==
    SingleThenBatch =>
        /\ call.outcome.kind = "return"
        /\ Len(call.outcome.value.items) = 1
        /\ Untimed(call.outcome.value.items[1]) = Untimed(probe.first.outcome.value)

C25_Witness_BatchKeepsPadding ==
    /\ SingleThenBatch
    /\ call.outcome.kind = "return"
    /\ probe.first.outcome.value.found = TRUE
    /\ probe.first.outcome.value.package = Str(<<"g", ":", "a">>)
    /\ call.outcome.value.items[1].found = TRUE
    /\ call.outcome.value.items[1].package = Str(<<" ", "g", ":", "a", " ">>)

\* C26. Every outbound request goes through the request policy: each request
\* a handler issues is made by makeRequest, after the rate-limit wait, and sets
\* the handler's lastRequestTime to its issue time, so that lastRequestTime is
\* always the issue time of the handler's most recent request (0 if it has
\* issued none).
C26_RequestPolicy ==
    /\ \A q \in requests : q.via = "makeRequest"
    /\ \A r \in Registries :
          /\ lastRequestTime[r] \in IssueTimes(r) \cup {0}
          /\ \A at \in IssueTimes(r) : at <= lastRequestTime[r]

C26_Witness_ListFetchedDirectly ==
    \E q \in requests :
        /\ q.registry = "go"
        /\ q.via = "axios.get"
        /\ q.at - lastRequestTime["go"] < rateLimitDelay

\* the results with found = true that a handler's checkVersionExists returned
VersionChecksFound ==
    {tasks[i].ended.value :
        i \in {j \in Returned : /\ handlerOp(call.op) = "checkVersionExists"
                                /\ tasks[j].ended.value.found = TRUE}}

\* C27. exists is a boolean: for every registry and every document the
\* registry may return (a 404 and a document lacking its versions among them),
\* a result of checkVersionExists with found = true has an exists field whose
\* value is true or false, never null or undefined.
C27_ExistsIsBoolean ==
    \A r \in VersionChecksFound :
        /\ "exists" \in DOMAIN r
        /\ r.exists \in {Bool(TRUE), Bool(FALSE)}

C27_Witness_ExistsNullOnMaven404 ==
    \E i \in Returned :
        /\ call.op = "checkVersionExists"
        /\ call.registry = "maven"
        /\ tasks[i].answer = 404
        /\ tasks[i].ended.value.found = TRUE
        /\ tasks[i].ended.value.exists = Null

\* the invocations of a version check that have an entry or a result
VersionChecked ==
    {i \in DOMAIN tasks :
        /\ call.registry \in Registries
        /\ handlerOp(call.op) = "checkVersionExists"
        /\ tasks[i].out.kind = "return"}

\* C28. The version is echoed in every version-check result: every entry
\* returned by checkVersionExists or checkVersionsExist (success, not-found,
\* malformed Maven coordinate, or the entry synthesized for a failed item)
\* carries a version field equal to the version checked for that item.
C28_VersionEchoed ==
    \A i \in VersionChecked :
        /\ "version" \in DOMAIN tasks[i].out.value
        /\ tasks[i].out.value.version = tasks[i].version

C28_Witness_SynthesizedWithoutVersion ==
    \E i \in VersionChecked :
        /\ call.op = "checkVersionsExist"
        /\ tasks[i].ended.kind = "throw"
        /\ tasks[i].requests > 0
        /\ IsString(tasks[i].version)
        /\ "version" \notin DOMAIN tasks[i].out.value

\* the invocations of getPackageInfo of RubyGems and crates.io whose first
\* request succeeded and whose request for the versions has been answered
SecondFetched ==
    {i \in DOMAIN tasks :
        /\ call.registry \in {"rubygems", "crates"}
        /\ handlerOp(call.op) = "getPackageInfo"
        /\ tasks[i].phase = 2
        /\ tasks[i].pc = "done"}

\* C29. Secondary-fetch failures in RubyGems and crates.io getPackageInfo: the
\* first request having succeeded, a 404 on the versions request yields
\* found = true with versions the empty list, and any other failure of the
\* versions request (server error, network error, timeout) makes getPackageInfo
\* throw that failure: no partial result is returned.
C29_SecondaryFetch ==
    \A i \in SecondFetched :
        LET t == tasks[i]
        IN  /\ t.listAnswer = 404 =>
                  /\ t.ended.kind = "return"
                  /\ t.ended.value.found = TRUE
                  /\ t.ended.value.versions = Arr(<<>>)
            /\ t.listAnswer \notin (200..299) \cup {404} =>
                  /\ t.ended = Throw(t.failed)
                  /\ SingleMade => call.outcome.kind \in {"pending", "throw"}

C29_Witness_VersionsRequestFailed ==
    \E i \in SecondFetched :
        /\ tasks[i].answer = 200
        /\ tasks[i].listAnswer = 500
        /\ tasks[i].ended.kind = "throw"
        /\ tasks[i].requests = 2

\* the handler has ended
Replied == probe.outcome.kind # "none"

\* argument checking or the operation invoked threw, and what it threw
ToolThrew ==
    \/ checkArguments(probe.request.name, probe.request.args).kind = "throw"
    \/ call.outcome.kind = "throw"

ToolError ==
    IF call = NoCall
    THEN checkArguments(probe.request.name, probe.request.args).error
    ELSE call.outcome.error

\* C30. The tool-call handler never throws to the transport: for every tool
\* name, known or unknown, and every arguments value the handler returns a
\* response; the response has isError = true and the text "Error: <message>"
\* exactly when argument checking or the operation invoked threw, and
\* otherwise it holds the JSON of the operation's result and no isError.
C30_HandlerNeverThrows ==
    /\ <>Replied
    /\ [](Replied =>
            /\ probe.outcome.kind = "return"
            /\ IF ToolThrew
               THEN /\ "isError" \in DOMAIN probe.outcome.value
                    /\ probe.outcome.value.isError = TRUE
                    /\ probe.outcome.value.content =
                          [prefix |-> "Error: ", message |-> ToolError]
               ELSE /\ "isError" \notin DOMAIN probe.outcome.value
                    /\ probe.outcome.value.content = stringify(call.outcome.value))

C30_Witness_OperationThrew ==
    /\ Replied
    /\ call # NoCall
    /\ call.outcome.kind = "throw"
    /\ requests # {}
    /\ probe.outcome.value.isError = TRUE

====
